---- MODULE Spec2Model ----
(***************************************************************************)
(* Model of the Wekan reminder service: the Board Client                   *)
(* (src/wekan_client.py), the Notifier (src/sns_notifier.py) and the       *)
(* Reminder Job Scheduler (src/scheduler.py).                              *)
(*                                                                         *)
(* Time is counted in half hours: an instant is a number of half hours     *)
(* since an arbitrary UTC origin, a wall-clock (naive) time is an instant  *)
(* plus the UTC offset of the zone it is read in.                          *)
(***************************************************************************)
EXTENDS Integers, Sequences, FiniteSets, TLC

VARIABLES clock, hostOffset, interval_minutes, token, is_running, sched,
          th, hist, call

vars == <<clock, hostOffset, interval_minutes, token, is_running, sched,
          th, hist, call>>

\* ------------------------------------------------------------------ bounds
\* Last instant the clock reaches.
MaxClock == 3
\* Calls of start(), stop() and runManualCheck() per run.
MaxCalls == 3

\* ------------------------------------------------------------ time & zones
\* One hour, in the model's time unit (3600 seconds in the source).
Hour == 2
\* UTC offset of the fixed local zone 'Asia/Jerusalem' (summer time, UTC+3).
JerusalemOffset == 3 * Hour
\* UTC offsets of the host machine's zone that the model lets the service
\* run in: UTC (a container) and the zone of the board's users.
HostOffsets == {0, JerusalemOffset}
\* The polling intervals configured (SCHEDULER_INTERVAL_MINUTES), in time units.
Intervals == {1, Hour}
\* The lookahead of every call site.
HoursAhead == 1

None == "None"

\* --------------------------------------------------- the upstream board API
\* What the board API holds: two boards, three lists, five cards.  A due
\* timestamp is the ISO-8601 text of the card's dueAt field, kept as its
\* parts: the format, the wall-clock time written and the offset written.
\*   z      "....Z"        UTC, trailing Z
\*   offset "....+03:00"   an explicit offset
\*   naive  "...."         no offset
\*   bad    text that is no ISO-8601 timestamp
\*   none   the card has no dueAt
Boards == <<"b1", "b2">>

ListsOf(b) == IF b = "b1" THEN <<"l1", "l2">> ELSE <<"l3">>

CardsOf(l) ==
  CASE l = "l1" -> <<"c1", "c2">>
    [] l = "l2" -> <<"c3", "c4">>
    [] OTHER    -> <<"c5">>

AllLists == {"l1", "l2", "l3"}

DueAt(c) ==
  CASE c = "c1" -> [fmt |-> "z",      wall |-> 2,                   off |-> 0]
    [] c = "c2" -> [fmt |-> "none",   wall |-> 0,                   off |-> 0]
    [] c = "c3" -> [fmt |-> "bad",    wall |-> 0,                   off |-> 0]
    [] c = "c4" -> [fmt |-> "offset", wall |-> 3 + JerusalemOffset, off |-> JerusalemOffset]
    [] OTHER    -> [fmt |-> "naive",  wall |-> 4,                   off |-> 0]

BoardTitle(b) == IF b = "b1" THEN "Board one" ELSE "Board two"
ListTitle(l) ==
  CASE l = "l1" -> "To do" [] l = "l2" -> "Doing" [] OTHER -> "Backlog"

\* Outcome of one HTTP request: a 200 answer, another status, or a
\* requests.exceptions.RequestException (timeout, refused connection).
HttpOutcomes == {"ok", "non200", "transport"}
\* The login endpoint may also answer 200 with a body that holds no token.
LoginOutcomes == HttpOutcomes \cup {"ok_notoken"}

\* What the upstream answers during one call: one outcome per endpoint.
Scenarios ==
  [login : LoginOutcomes, boards : HttpOutcomes,
   lists : [{"b1", "b2"} -> HttpOutcomes], cards : [AllLists -> HttpOutcomes]]

AllOk ==
  [login |-> "ok", boards |-> "ok",
   lists |-> [b \in {"b1", "b2"} |-> "ok"], cards |-> [l \in AllLists |-> "ok"]]

\* ---------------------------------------------------------- exception flow
\* Python's except clause: `except Exception` takes every error the model
\* raises, `except requests.exceptions.RequestException` only transport ones.
CatchesNarrow(handler, exc) == exc = "RequestException"

Catches(handler, exc) ==
  \/ handler = "Exception"
  \/ handler = exc

NoExc == "none"

\* ------------------------------------------------------------ Board Client
\* WekanClient.login: the token and the user id are stored from a 200
\* answer, whatever its body holds; any other answer leaves the token alone.
login(tok, outcome) ==
  CASE outcome = "ok"         -> [ok |-> TRUE,  token |-> "tok"]
    [] outcome = "ok_notoken" -> [ok |-> TRUE,  token |-> None]
    [] OTHER                  -> [ok |-> FALSE, token |-> tok]

\* WekanClient.get_headers raises ValueError while no token is held.
get_headers(tok) == IF tok = None THEN "ValueError" ELSE NoExc

\* The except clause of get_boards and of get_cards_from_board.
RequestHandler == "RequestException"
\* The except clause of get_due_cards, of check_and_send_reminders and of
\* run_manual_check.
ExceptionHandler == "Exception"

\* A call's outcome: the exception that leaves it (NoExc: it returns), the
\* value returned, the token held afterwards, the login requests made,
\* whether an error or a warning was logged about a request, and whether an
\* exception of a request was handled inside the call.
Outcome(exc, value, tok, logins, logged) ==
  [exc |-> exc, value |-> value, token |-> tok, logins |-> logins, logged |-> logged,
   caught |-> FALSE]

\* An exception raised in a try block whose handler returns `fallback`.
Raise(handler, exc, fallback, tok, logins) ==
  IF Catches(handler, exc)
  THEN [Outcome(NoExc, fallback, tok, logins, TRUE) EXCEPT !.caught = TRUE]
  ELSE Outcome(exc, fallback, tok, logins, FALSE)

\* WekanClient.get_boards: it logs in only while no token is held.
get_boards_relogin(tok, scn) ==
  LET lg   == login(tok, scn.login)
      hdr  == get_headers(lg.token)
  IN  IF ~lg.ok THEN Outcome(NoExc, <<>>, lg.token, 1, TRUE)
      ELSE IF hdr # NoExc THEN Raise(RequestHandler, hdr, <<>>, lg.token, 1)
      ELSE CASE scn.boards = "ok"     -> Outcome(NoExc, Boards, lg.token, 1, FALSE)
             [] scn.boards = "non200" -> Outcome(NoExc, <<>>, lg.token, 1, TRUE)
             [] OTHER -> Raise(RequestHandler, "RequestException", <<>>, lg.token, 1)

get_boards(tok, scn) ==
  LET lg   == IF tok = None THEN login(tok, scn.login) ELSE [ok |-> TRUE, token |-> tok]
      n    == IF tok = None THEN 1 ELSE 0
      hdr  == get_headers(lg.token)
  IN  IF tok = None /\ ~lg.ok THEN Outcome(NoExc, <<>>, lg.token, n, TRUE)
      ELSE IF hdr # NoExc THEN Raise(RequestHandler, hdr, <<>>, lg.token, n)
      ELSE CASE scn.boards = "ok"     -> Outcome(NoExc, Boards, lg.token, n, FALSE)
             [] scn.boards = "non200" -> Outcome(NoExc, <<>>, lg.token, n, TRUE)
             [] OTHER -> Raise(RequestHandler, "RequestException", <<>>, lg.token, n)

\* The cards of one list as get_cards_from_board annotates them.
AnnotatedCards(b, l) ==
  [i \in 1..Len(CardsOf(l)) |->
     [id |-> CardsOf(l)[i], dueAt |-> DueAt(CardsOf(l)[i]),
      boardId |-> b, listId |-> l, listTitle |-> ListTitle(l)]]

\* The loop over the lists of a board: a non-200 answer skips the list, a
\* transport error leaves the loop.
RECURSIVE cards_of_lists(_, _, _, _, _)
cards_of_lists(b, ls, scn, acc, logged) ==
  IF ls = <<>> THEN [exc |-> NoExc, value |-> acc, logged |-> logged]
  ELSE LET l == Head(ls) IN
       CASE scn.cards[l] = "ok" ->
              cards_of_lists(b, Tail(ls), scn, acc \o AnnotatedCards(b, l), logged)
         [] scn.cards[l] = "non200" ->
              cards_of_lists(b, Tail(ls), scn, acc, TRUE)
         [] OTHER -> [exc |-> "RequestException", value |-> acc, logged |-> logged]

get_cards_from_board(tok, b, scn) ==
  LET hdr == get_headers(tok) IN
  IF hdr # NoExc THEN Raise(RequestHandler, hdr, <<>>, tok, 0)
  ELSE CASE scn.lists[b] = "non200"    -> Outcome(NoExc, <<>>, tok, 0, TRUE)
         [] scn.lists[b] = "transport" ->
              Raise(RequestHandler, "RequestException", <<>>, tok, 0)
         [] OTHER ->
              LET w == cards_of_lists(b, ListsOf(b), scn, <<>>, FALSE) IN
              IF w.exc # NoExc THEN Raise(RequestHandler, w.exc, <<>>, tok, 0)
              ELSE Outcome(NoExc, w.value, tok, 0, w.logged)

\* datetime.fromisoformat(due_at.replace('Z', '+00:00')): an aware datetime
\* when the text carries an offset or a Z, a naive one when it carries
\* neither, ValueError when the text is no timestamp.
fromisoformat(due) ==
  CASE due.fmt = "z"      -> [exc |-> NoExc, aware |-> TRUE,  wall |-> due.wall, off |-> 0]
    [] due.fmt = "offset" -> [exc |-> NoExc, aware |-> TRUE,  wall |-> due.wall, off |-> due.off]
    [] due.fmt = "naive"  -> [exc |-> NoExc, aware |-> FALSE, wall |-> due.wall, off |-> 0]
    [] OTHER              -> [exc |-> "ValueError", aware |-> FALSE, wall |-> 0, off |-> 0]

\* dt.astimezone(local_tz).replace(tzinfo=None): the wall-clock time in
\* Asia/Jerusalem.  astimezone reads a naive datetime in the host's zone.
astimezone_local(dt, host) ==
  LET instant == IF dt.aware THEN dt.wall - dt.off ELSE dt.wall - host
  IN  instant + JerusalemOffset

\* datetime.now(timezone.utc).astimezone(local_tz).replace(tzinfo=None)
now_local(now_utc) == now_utc + JerusalemOffset

\* now <= due_date <= threshold
InWindowExclusive(due_date, now, threshold) == now <= due_date /\ due_date < threshold

InWindow(due_date, now, threshold) == now <= due_date /\ due_date <= threshold

\* The body of the loop over a board's cards: the cards kept, in order.  An
\* error of the parse is handled per card by `except Exception`.
RECURSIVE due_of_cards(_, _, _, _, _)
due_of_cards(cards, b, now, threshold, host) ==
  IF cards = <<>> THEN [exc |-> NoExc, value |-> <<>>]
  ELSE LET card == Head(cards)
           dt   == fromisoformat(card.dueAt)
           rest == due_of_cards(Tail(cards), b, now, threshold, host)
       IN  IF card.dueAt.fmt = "none" THEN rest
           ELSE IF dt.exc # NoExc
                THEN (IF Catches(ExceptionHandler, dt.exc) THEN rest
                      ELSE [exc |-> dt.exc, value |-> <<>>])
           ELSE LET due_date == astimezone_local(dt, host) IN
                IF InWindow(due_date, now, threshold)
                THEN [exc |-> rest.exc,
                      value |-> <<[id |-> card.id, dueAt |-> card.dueAt,
                                   boardId |-> card.boardId, listId |-> card.listId,
                                   listTitle |-> card.listTitle,
                                   boardTitle |-> BoardTitle(b),
                                   dueAtParsed |-> due_date]>> \o rest.value]
                ELSE rest

\* The loop over the boards.
RECURSIVE due_of_boards(_, _, _, _, _, _)
due_of_boards(bs, tok, scn, now, threshold, host) ==
  IF bs = <<>> THEN [exc |-> NoExc, value |-> <<>>, logged |-> FALSE, caught |-> FALSE]
  ELSE LET b  == Head(bs)
           cs == get_cards_from_board(tok, b, scn)
           dc == due_of_cards(cs.value, b, now, threshold, host)
       IN  IF cs.exc # NoExc
           THEN [exc |-> cs.exc, value |-> <<>>, logged |-> FALSE, caught |-> FALSE]
           ELSE IF dc.exc # NoExc
           THEN [exc |-> dc.exc, value |-> <<>>, logged |-> FALSE, caught |-> FALSE]
           ELSE LET rest == due_of_boards(Tail(bs), tok, scn, now, threshold, host)
                IN  [exc |-> rest.exc, value |-> dc.value \o rest.value,
                     logged |-> cs.logged \/ rest.logged,
                     caught |-> cs.caught \/ rest.caught]

get_due_cards(tok, scn, now_utc, host, hours_ahead) ==
  LET now       == now_local(now_utc)
      threshold == now + hours_ahead * Hour
      bo        == get_boards(tok, scn)
  IN  IF bo.exc # NoExc THEN Raise(ExceptionHandler, bo.exc, <<>>, bo.token, bo.logins)
      ELSE IF bo.value = <<>>
      THEN [Outcome(NoExc, <<>>, bo.token, bo.logins, TRUE) EXCEPT !.caught = bo.caught]
      ELSE LET w == due_of_boards(bo.value, bo.token, scn, now, threshold, host)
           IN  IF w.exc # NoExc
               THEN Raise(ExceptionHandler, w.exc, <<>>, bo.token, bo.logins)
               ELSE [Outcome(NoExc, w.value, bo.token, bo.logins, w.logged)
                       EXCEPT !.caught = w.caught]

\* ---------------------------------------------------------------- Notifier
\* What sns_client.publish does: it returns an acknowledgment with a
\* MessageId or without one, or raises botocore's ClientError, BotoCoreError
\* or another error.
PublishOutcomes == {"ack", "ack_noid", "ClientError", "BotoCoreError", "Error"}

\* The environment's SNS_TOPIC_ARN: not set, set to the empty string, or set
\* to a topic.
Unset == "unset"
TopicEnv == {Unset, "", "arn:configured"}
\* The default os.getenv falls back on: the ARN written in the source.
DefaultTopicArn == "arn:aws:sns:eu-west-1:228281126655:wekan-card-reminders"

\* os.getenv(name, default)
getenv(value, default) == IF value = Unset THEN default ELSE value

\* SNSNotifier.__init__: ValueError when the topic read is empty, whatever
\* boto3.client raises when the client cannot be made; both are logged and
\* raised again.
SNSNotifier_init(env, client_ok) ==
  LET sns_topic_arn == getenv(env, DefaultTopicArn) IN
  IF sns_topic_arn = "" THEN [exc |-> "ValueError", sns_topic_arn |-> sns_topic_arn]
  ELSE IF ~client_ok THEN [exc |-> "BotoCoreError", sns_topic_arn |-> sns_topic_arn]
  ELSE [exc |-> NoExc, sns_topic_arn |-> sns_topic_arn]

\* Seconds in an hour: hours_until_due = total_seconds() / 3600.
SecondsPerHour == 3600

\* The urgency chain of format_card_message for hours_until_due = n / d
\* (d > 0): `< 0`, `< 0.5`, `< 1`, else.
urgency_of_inclusive(n, d) ==
  IF n < 0 THEN "OVERDUE"
  ELSE IF 2 * n <= d THEN "URGENT"
  ELSE IF n <= d THEN "SOON"
  ELSE "UPCOMING"

urgency_of(n, d) ==
  IF n < 0 THEN "OVERDUE"
  ELSE IF 2 * n < d THEN "URGENT"
  ELSE IF n < d THEN "SOON"
  ELSE "UPCOMING"

\* The urgency tag of format_card_message for a time until due `u`, in time
\* units: hours_until_due = u / Hour.
urgency(u) == urgency_of(u, Hour)

\* SNSNotifier.format_card_message: the subject and, per card, the time until
\* due and its tag.  datetime.now() is the host's wall-clock time.
format_card_message(due_cards, now_utc, host) ==
  IF due_cards = <<>>
  THEN [subject |-> [kind |-> "No Due Cards", count |-> 0], entries |-> <<>>]
  ELSE [subject |-> [kind |-> "Wekan Alert", count |-> Len(due_cards)],
        entries |-> [i \in 1..Len(due_cards) |->
                       LET u == due_cards[i].dueAtParsed - (now_utc + host) IN
                       [id |-> due_cards[i].id, until |-> u, urgency |-> urgency(u)]]]

\* The return of send_notification after the publish call answered.
ack_result_any(outcome) == TRUE

ack_result(outcome) == outcome = "ack"

\* The empty check at the head of send_notification.
nothing_to_send_never(due_cards) == FALSE

nothing_to_send(due_cards) == due_cards = <<>>

\* SNSNotifier.send_notification: the exception that leaves it, the value
\* returned, the publish calls made and the message handed to publish.
send_notification(due_cards, outcome, now_utc, host) ==
  LET msg == format_card_message(due_cards, now_utc, host) IN
  IF nothing_to_send(due_cards)
  THEN [exc |-> NoExc, value |-> TRUE, calls |-> 0, message |-> None]
  ELSE IF outcome \in {"ack", "ack_noid"}
  THEN [exc |-> NoExc, value |-> ack_result(outcome), calls |-> 1, message |-> msg]
  ELSE IF \/ Catches("ClientError", outcome)
          \/ Catches("BotoCoreError", outcome)
          \/ Catches(ExceptionHandler, outcome)
  THEN [exc |-> NoExc, value |-> FALSE, calls |-> 1, message |-> msg]
  ELSE [exc |-> outcome, value |-> FALSE, calls |-> 1, message |-> msg]

\* --------------------------------------------------------------- Scheduler
\* The threads of the service: the one that drives the life cycle (the
\* application's startup and shutdown hooks), the timer's worker and one
\* request handler of the HTTP facade.  The facade serves requests between
\* the startup hook and the shutdown hook, never during one of them.
Threads == {"main", "timer", "http"}

\* A thread at rest; in a reminder check a thread is at "fetch" (before
\* get_due_cards) or at "publish" (holding the due cards, before
\* send_notification); the main thread in shutdown() is at "stopping".
Idle == [pc |-> "idle", due |-> <<>>]

JobId == "reminder_check"

\* BackgroundScheduler.add_job(id='reminder_check', replace_existing=True)
add_job(jobs, id) ==
  IF \E i \in 1..Len(jobs) : jobs[i] = id THEN jobs ELSE Append(jobs, id)

\* BackgroundScheduler.start(): refuses a running scheduler; the interval
\* trigger fires first one interval after the start.
scheduler_start(s, now, interval) ==
  IF s.state = "running"
  THEN [exc |-> "SchedulerAlreadyRunningError", sched |-> s]
  ELSE [exc |-> NoExc,
        sched |-> [state |-> "running", jobs |-> s.jobs, next_run |-> now + interval]]

\* BackgroundScheduler.shutdown(): no job fires any more and the job store
\* is emptied.
shutdown_ignored(s) == s

shutdown(s) == [state |-> "stopped", jobs |-> <<>>, next_run |-> 0]

\* The guard of start(): `if self.is_running: ... return`.
start_guard_open(running) == FALSE

start_guard(running) == running

\* The guard of stop(): `if not self.is_running: ... return`.
stop_guard(running) == ~running

\* The call of check_and_send_reminders() that ends start().
initial_check_skipped(thread) == thread

initial_check(thread) == [pc |-> "fetch", due |-> <<>>]

\* The cards held by the reminder checks in flight on the threads `ts`.
held(threads, ts) ==
  UNION {{threads[t].due[i].id : i \in 1..Len(threads[t].due)} : t \in ts}

\* The cards a check hands to send_notification: its due cards as fetched,
\* whatever another check in flight holds
\* (`if due_cards: send_notification(due_cards)`).
cards_to_publish_unheld(due, held_elsewhere) ==
  SelectSeq(due, LAMBDA c : c.id \notin held_elsewhere)

cards_to_publish(due, held_elsewhere) == due

\* The cards of the message that a publish carried: none when no publish
\* call was made.
sent_cards(r) ==
  IF r.calls = 0 THEN {}
  ELSE {r.message.entries[i].id : i \in 1..Len(r.message.entries)}

\* Where check_and_send_reminders stands after send_notification returned
\* `sent`: it logs the outcome and returns, whatever the outcome.
after_publish_retry(thread, sent) ==
  IF sent THEN Idle ELSE [pc |-> "fetch", due |-> <<>>]

after_publish(thread, sent) == Idle

\* No RunResult returned yet.
NoResult ==
  [present |-> FALSE, raised |-> FALSE, has_timestamp |-> FALSE,
   success |-> FALSE, error |-> None,
   has_counts |-> FALSE, due_cards_count |-> 0, due_cards |-> <<>>,
   notification_sent |-> FALSE]

\* The except branch of run_manual_check.
error_result(exc) ==
  IF Catches(ExceptionHandler, exc)
  THEN [NoResult EXCEPT !.present = TRUE, !.has_timestamp = TRUE,
                        !.success = FALSE, !.error = exc]
  ELSE [NoResult EXCEPT !.present = TRUE, !.raised = TRUE]

\* The summaries run_manual_check builds from the due cards.
summaries(due) ==
  [i \in 1..Len(due) |->
     [title |-> due[i].id, board |-> due[i].boardTitle, list |-> due[i].listTitle,
      due_at |-> due[i].dueAtParsed, hours_until_due |-> None]]

\* The RunResult of run_manual_check, given what get_due_cards returned and,
\* when it returned cards, what send_notification returned.
run_result_unflagged(due, sent) ==
  [present |-> TRUE, raised |-> FALSE, has_timestamp |-> TRUE,
   success |-> TRUE,
   error |-> IF due # <<>> /\ ~sent THEN "Failed to send SNS notification" ELSE None,
   has_counts |-> TRUE, due_cards_count |-> Len(due), due_cards |-> summaries(due),
   notification_sent |-> due # <<>> /\ sent]

run_result(due, sent) ==
  [present |-> TRUE, raised |-> FALSE, has_timestamp |-> TRUE,
   success |-> (due = <<>>) \/ sent,
   error |-> IF due # <<>> /\ ~sent THEN "Failed to send SNS notification" ELSE None,
   has_counts |-> TRUE, due_cards_count |-> Len(due), due_cards |-> summaries(due),
   notification_sent |-> due # <<>> /\ sent]

\* No response sent yet.
NoResponse ==
  [status |-> 0, detail |-> None, success |-> FALSE, due_cards_count |-> 0,
   due_cards |-> <<>>, notification_sent |-> FALSE, error |-> None]

\* POST /reminders/run, after run_manual_check returned `result`: the
\* response model filled with the result's fields or their defaults, sent
\* with 200 when success is true and with 500 otherwise; an exception is
\* answered by 500 with a detail text.
run_reminders_manual(result) ==
  IF result.raised
  THEN [NoResponse EXCEPT !.status = 500, !.detail = "Error running reminders"]
  ELSE [status |-> IF result.success THEN 200 ELSE 500,
        detail |-> None,
        success |-> result.success,
        due_cards_count |-> IF result.has_counts THEN result.due_cards_count ELSE 0,
        due_cards |-> IF result.has_counts THEN result.due_cards ELSE <<>>,
        notification_sent |-> result.has_counts /\ result.notification_sent,
        error |-> result.error]

\* Every endpoint of the board API fails the same way.
AllFail(how) ==
  [login |-> how, boards |-> how,
   lists |-> [b \in {"b1", "b2"} |-> how], cards |-> [l \in AllLists |-> how]]

\* The scenarios the scheduler's runs draw from: the board API answers every
\* request, fails one endpoint, or is unreachable as a whole.
SchedScenarios ==
  LET bad == {"non200", "transport"} IN
  {AllOk, AllFail("non200"), AllFail("transport")}
    \cup {[AllOk EXCEPT !.login = o] : o \in bad \cup {"ok_notoken"}}
    \cup {[AllOk EXCEPT !.boards = o] : o \in bad}
    \cup {[AllOk EXCEPT !.lists[x[1]] = x[2]] : x \in {"b1", "b2"} \X bad}
    \cup {[AllOk EXCEPT !.cards[x[1]] = x[2]] : x \in AllLists \X bad}

NoCall == [op |-> "none"]

Init ==
  /\ clock = 0
  /\ hostOffset \in HostOffsets
  /\ interval_minutes \in Intervals
  /\ token = None
  /\ is_running = FALSE
  /\ sched = [state |-> "stopped", jobs |-> <<>>, next_run |-> 0]
  /\ th = [t \in Threads |-> Idle]
  /\ hist = [calls |-> 0, last |-> "none", life |-> "none", effective |-> FALSE,
             immTicks |-> 0, immDone |-> 0, timerFired |-> FALSE,
             startRaised |-> FALSE, timerSawExc |-> FALSE,
             failedTick |-> FALSE, firedAfterFail |-> FALSE,
             result |-> NoResult, fetchFailed |-> FALSE, acked |-> FALSE,
             response |-> NoResponse, sent |-> {},
             timerFault |-> FALSE, stopRaised |-> FALSE, statusRaised |-> FALSE]
  /\ call = NoCall

\* The timer is due: the scheduler's thread wakes at the job's run time.
TimerDue ==
  /\ sched.state = "running"
  /\ \E i \in 1..Len(sched.jobs) : sched.jobs[i] = JobId
  /\ clock >= sched.next_run

\* Time passes; a due timer is served before it does.
Advance ==
  /\ clock < MaxClock
  /\ ~TimerDue
  /\ call = NoCall
  /\ clock' = clock + 1
  /\ UNCHANGED <<hostOffset, interval_minutes, token, is_running, sched, th, hist, call>>

\* What the timer library does in start(): it works, add_job raises, or
\* scheduler.start() raises; and in stop(): shutdown() works or raises.
StartOutcomes == {"ok", "add_job", "start"}
ShutdownOutcomes == {"ok", "Error"}

\* The except clause of start(): the exception is logged and raised again.
start_except(exc) == exc

\* The except clause of stop(): the exception is logged, stop() returns.
stop_except_reraise(exc) == exc

stop_except(exc) == NoExc

\* ReminderScheduler.start(), the timer library doing `timer`.
StartWith(timer) ==
  /\ th["main"].pc = "idle"
  /\ th["http"].pc = "idle"
  /\ hist.calls < MaxCalls
  /\ IF start_guard(is_running)
     THEN /\ hist' = [hist EXCEPT !.calls = @ + 1, !.last = "start", !.life = "start", !.effective = FALSE]
          /\ UNCHANGED <<is_running, sched, th>>
     ELSE LET st == CASE timer = "ok" ->
                              scheduler_start([sched EXCEPT !.jobs = add_job(@, JobId)],
                                              clock, interval_minutes)
                         [] timer = "add_job" -> [exc |-> "Error", sched |-> sched]
                         [] OTHER ->
                              [exc |-> "Error",
                               sched |-> [sched EXCEPT !.jobs = add_job(@, JobId)]]
              me == initial_check(th["main"])
          IN  IF st.exc # NoExc
              THEN /\ sched' = st.sched
                   /\ hist' = [hist EXCEPT !.calls = @ + 1, !.last = "start", !.life = "start",
                                           !.effective = TRUE, !.immTicks = 0,
                                           !.immDone = 0,
                                           !.startRaised = start_except(st.exc) # NoExc,
                                           !.timerFault = timer # "ok"]
                   /\ UNCHANGED <<is_running, th>>
              ELSE /\ sched' = st.sched
                   /\ is_running' = TRUE
                   /\ th' = [th EXCEPT !["main"] = me]
                   /\ hist' = [hist EXCEPT !.calls = @ + 1, !.last = "start", !.life = "start",
                                           !.effective = TRUE,
                                           !.immTicks = IF me.pc = "fetch" THEN 1 ELSE 0,
                                           !.immDone = 0, !.timerFired = FALSE,
                                           !.startRaised = FALSE, !.timerFault = FALSE]
  /\ UNCHANGED <<clock, hostOffset, interval_minutes, token, call>>

\* start() with a timer library that works.
Start == StartWith("ok")

\* ReminderScheduler.stop(), up to the wait of shutdown() for a running job,
\* the timer library doing `timer`.  A shutdown() that raises has shut the
\* timer down or has not.
StopWith(timer) ==
  /\ th["main"].pc = "idle"
  /\ th["http"].pc = "idle"
  /\ hist.calls < MaxCalls
  /\ IF stop_guard(is_running)
     THEN /\ hist' = [hist EXCEPT !.calls = @ + 1, !.last = "stop", !.life = "stop", !.effective = FALSE]
          /\ UNCHANGED <<is_running, sched, th>>
     ELSE IF timer = "ok"
     THEN /\ sched' = shutdown(sched)
          /\ th' = [th EXCEPT !["main"] = [Idle EXCEPT !.pc = "stopping"]]
          /\ hist' = [hist EXCEPT !.calls = @ + 1, !.last = "stop", !.life = "stop", !.effective = TRUE]
          /\ UNCHANGED is_running
     ELSE /\ sched' \in {sched, shutdown(sched)}
          /\ hist' = [hist EXCEPT !.calls = @ + 1, !.last = "stop", !.life = "stop",
                                  !.effective = TRUE,
                                  !.stopRaised = @ \/ stop_except(timer) # NoExc]
          /\ UNCHANGED <<is_running, th>>
  /\ UNCHANGED <<clock, hostOffset, interval_minutes, token, call>>

\* stop() with a timer library that works.
Stop == StopWith("ok")

\* shutdown() returns once no job runs; stop() then clears is_running.
StopReturn ==
  /\ th["main"].pc = "stopping"
  /\ th["timer"].pc = "idle"
  /\ is_running' = FALSE
  /\ th' = [th EXCEPT !["main"] = Idle]
  /\ UNCHANGED <<clock, hostOffset, interval_minutes, token, sched, hist, call>>

\* The scheduler's thread serves the due job: it hands the job to the worker,
\* or skips this run while the previous one still runs (max_instances = 1).
TimerFire ==
  /\ TimerDue
  /\ sched' = [sched EXCEPT !.next_run = @ + interval_minutes]
  /\ \/ /\ th["timer"].pc = "idle"
        /\ th' = [th EXCEPT !["timer"] = [pc |-> "fetch", due |-> <<>>]]
        /\ hist' = [hist EXCEPT !.timerFired = TRUE,
                                !.firedAfterFail = @ \/ hist.failedTick]
     \/ /\ th["timer"].pc # "idle"
        /\ UNCHANGED <<th, hist>>
  /\ UNCHANGED <<clock, hostOffset, interval_minutes, token, is_running, call>>

\* What the history keeps of a step of check_and_send_reminders on thread
\* t: `exc` left its try block (NoExc: none did), `failed` tells whether an
\* exception was raised and handled inside the step, `ends` whether the
\* check ends with the step.
TickNoted(t, exc, failed, ends) ==
  LET escaped == exc # NoExc /\ ~Catches(ExceptionHandler, exc) IN
  IF t = "timer"
  THEN [hist EXCEPT !.timerSawExc = @ \/ escaped,
                    !.failedTick = @ \/ failed \/ exc # NoExc]
  ELSE [hist EXCEPT !.immDone = IF ends THEN @ + 1 ELSE @,
                    !.startRaised = @ \/ escaped]

\* check_and_send_reminders, first half: get_due_cards(hours_ahead=1).
TickFetch(t) ==
  /\ th[t].pc = "fetch"
  /\ \E scn \in SchedScenarios :
       LET r == get_due_cards(token, scn, clock, hostOffset, HoursAhead) IN
       /\ token' = r.token
       /\ th' = [th EXCEPT ![t] = IF r.exc = NoExc /\ r.value # <<>>
                                  THEN [pc |-> "publish", due |-> r.value]
                                  ELSE Idle]
       /\ hist' = TickNoted(t, r.exc, r.caught, r.exc # NoExc \/ r.value = <<>>)
  /\ UNCHANGED <<clock, hostOffset, interval_minutes, is_running, sched, call>>

\* check_and_send_reminders, second half: send_notification(due_cards).
TickPublish(t) ==
  /\ th[t].pc = "publish"
  /\ \E o \in PublishOutcomes :
       LET r == send_notification(cards_to_publish(th[t].due, held(th, Threads \ {t})),
                                  o, clock, hostOffset) IN
       /\ th' = [th EXCEPT ![t] = after_publish(th[t], r.exc = NoExc /\ r.value)]
       /\ hist' = TickNoted(t, r.exc, o \notin {"ack", "ack_noid"}, TRUE)
  /\ UNCHANGED <<clock, hostOffset, interval_minutes, token, is_running, sched, call>>

\* run_manual_check, first half: get_due_cards and the result's first fields.
ManualFetch ==
  /\ th["http"].pc = "idle"
  /\ th["main"].pc = "idle"
  /\ hist.calls < MaxCalls
  /\ \E scn \in SchedScenarios :
       LET r == get_due_cards(token, scn, clock, hostOffset, HoursAhead) IN
       /\ token' = r.token
       /\ IF r.exc = NoExc /\ r.value # <<>>
          THEN /\ th' = [th EXCEPT !["http"] = [pc |-> "publish", due |-> r.value]]
               /\ hist' = [hist EXCEPT !.calls = @ + 1, !.last = "manual",
                                       !.fetchFailed = r.logged]
          ELSE /\ th' = [th EXCEPT !["http"] = [Idle EXCEPT !.pc = "return"]]
               /\ hist' = [hist EXCEPT !.calls = @ + 1, !.last = "manual",
                             !.fetchFailed = r.logged,
                             !.result = IF r.exc # NoExc THEN error_result(r.exc)
                                        ELSE run_result(r.value, FALSE)]
  /\ UNCHANGED <<clock, hostOffset, interval_minutes, is_running, sched, call>>

\* run_manual_check, second half: send_notification and the result's last
\* fields.
ManualPublish ==
  /\ th["http"].pc = "publish"
  /\ \E o \in PublishOutcomes :
       LET r == send_notification(cards_to_publish(th["http"].due,
                                                   held(th, Threads \ {"http"})),
                                  o, clock, hostOffset) IN
       hist' = [hist EXCEPT !.result = IF r.exc # NoExc THEN error_result(r.exc)
                                       ELSE run_result(th["http"].due, r.value),
                            !.acked = (o = "ack"),
                            !.sent = IF o = "ack" THEN sent_cards(r) ELSE {}]
  /\ th' = [th EXCEPT !["http"] = [Idle EXCEPT !.pc = "return"]]
  /\ UNCHANGED <<clock, hostOffset, interval_minutes, token, is_running, sched, call>>

\* run_manual_check returns to POST /reminders/run, which builds its
\* response from the RunResult.
ManualReturn ==
  /\ th["http"].pc = "return"
  /\ th' = [th EXCEPT !["http"] = [Idle EXCEPT !.pc = "respond"]]
  /\ hist' = [hist EXCEPT !.response = run_reminders_manual(hist.result)]
  /\ UNCHANGED <<clock, hostOffset, interval_minutes, token, is_running, sched, call>>

\* POST /reminders/run sends its response; the request is over.
ManualRespond ==
  /\ th["http"].pc = "respond"
  /\ th' = [th EXCEPT !["http"] = Idle]
  /\ hist' = [hist EXCEPT !.result = NoResult, !.fetchFailed = FALSE, !.acked = FALSE,
                          !.response = NoResponse, !.sent = {}]
  /\ UNCHANGED <<clock, hostOffset, interval_minutes, token, is_running, sched, call>>

\* ReminderScheduler.get_status: the jobs are read from the timer only while
\* is_running; an error of that read is answered by running = False and
\* the error.  next_run is -1 where the source has None.
get_status(running, s, interval, jobs_outcome) ==
  IF running /\ jobs_outcome # "ok"
  THEN IF Catches(ExceptionHandler, jobs_outcome)
       THEN [exc |-> NoExc, running |-> FALSE, interval_minutes |-> 0, next_run |-> -1,
             jobs_count |-> 0, error |-> jobs_outcome]
       ELSE [exc |-> jobs_outcome, running |-> FALSE, interval_minutes |-> 0,
             next_run |-> -1, jobs_count |-> 0, error |-> jobs_outcome]
  ELSE LET jobs == IF running THEN s.jobs ELSE <<>> IN
       [exc |-> NoExc, running |-> running, interval_minutes |-> interval,
        next_run |-> IF jobs # <<>> THEN s.next_run ELSE -1,
        jobs_count |-> Len(jobs), error |-> None]

\* is_running after get_status returned `status`: get_status assigns
\* nothing, also where it reports running = False after an error.
after_get_status_cleared(running, status) == status.running

after_get_status(running, status) == running

\* ReminderScheduler.get_status called by a request handler.
GetStatus ==
  /\ th["http"].pc = "idle"
  /\ \E jobs_outcome \in {"ok", "Error"} :
       LET status == get_status(is_running, sched, interval_minutes, jobs_outcome) IN
       /\ is_running' = after_get_status(is_running, status)
       /\ hist' = [hist EXCEPT !.statusRaised = @ \/ status.exc # NoExc]
  /\ UNCHANGED <<clock, hostOffset, interval_minutes, token, sched, th, call>>

Next ==
  \/ Advance
  \/ Start
  \/ Stop
  \/ StopReturn
  \/ TimerFire
  \/ \E t \in {"main", "timer"} : TickFetch(t)
  \/ \E t \in {"main", "timer"} : TickPublish(t)
  \/ ManualFetch
  \/ ManualPublish
  \/ ManualReturn
  \/ ManualRespond
  \/ GetStatus

Spec == Init /\ [][Next]_vars

\* ------------------------------------------------- a timer library that fails
\* The scheduler's operations with a timer library that may fail in start()
\* and in stop().
FaultyStart == \E timer \in StartOutcomes : StartWith(timer)
FaultyStop == \E timer \in ShutdownOutcomes : StopWith(timer)

NextFaults ==
  \/ Advance
  \/ FaultyStart
  \/ FaultyStop
  \/ StopReturn
  \/ TimerFire
  \/ \E t \in {"main", "timer"} : TickFetch(t)
  \/ \E t \in {"main", "timer"} : TickPublish(t)
  \/ ManualFetch
  \/ ManualPublish
  \/ ManualReturn
  \/ ManualRespond
  \/ GetStatus

SpecFaults == Init /\ [][NextFaults]_vars

\* ------------------------------------------------------- the public methods
\* The Board Client's and the Notifier's methods called on their own, as the
\* facade's test endpoints and the unit tests call them: `call` keeps the
\* inputs and the outcome of the call until the caller has taken it.
Lookaheads == {0, 1, 2}

\* Due-card sequences as get_due_cards hands them to the Notifier.
DueCardSeqs ==
  {<<>>} \cup {get_due_cards("tok", AllOk, c, h, HoursAhead).value :
                 c \in 0..MaxClock, h \in HostOffsets}

\* WekanClient(): a client constructed anew holds no token.
NewClient ==
  /\ call = NoCall
  /\ token # None
  /\ token' = None
  /\ UNCHANGED <<clock, hostOffset, interval_minutes, is_running, sched, th, hist, call>>

CallLogin ==
  /\ call = NoCall
  /\ \E o \in LoginOutcomes :
       LET r == login(token, o) IN
       /\ token' = r.token
       /\ call' = [op |-> "login", before |-> token, outcome |-> o, ok |-> r.ok]
  /\ UNCHANGED <<clock, hostOffset, interval_minutes, is_running, sched, th, hist>>

CallGetBoards ==
  /\ call = NoCall
  /\ \E lo \in LoginOutcomes, bo \in HttpOutcomes :
       LET scn == [AllOk EXCEPT !.login = lo, !.boards = bo]
           r   == get_boards(token, scn)
       IN  /\ token' = r.token
           /\ call' = [op |-> "get_boards", before |-> token, scn |-> scn, out |-> r]
  /\ UNCHANGED <<clock, hostOffset, interval_minutes, is_running, sched, th, hist>>

CallGetCardsFromBoard ==
  /\ call = NoCall
  /\ \E b \in {"b1", "b2"}, lo \in HttpOutcomes, co \in [AllLists -> HttpOutcomes] :
       LET scn == [AllOk EXCEPT !.lists[b] = lo, !.cards = co]
           r   == get_cards_from_board(token, b, scn)
       IN  /\ \A l \in AllLists : (\A i \in 1..Len(ListsOf(b)) : ListsOf(b)[i] # l)
                                    => co[l] = "ok"
           /\ call' = [op |-> "get_cards_from_board", before |-> token, board |-> b,
                       scn |-> scn, out |-> r]
  /\ UNCHANGED <<clock, hostOffset, interval_minutes, token, is_running, sched, th, hist>>

CallGetDueCards ==
  /\ call = NoCall
  /\ \E scn \in Scenarios, hours \in Lookaheads :
       LET r == get_due_cards(token, scn, clock, hostOffset, hours) IN
       /\ token # None => scn.login = "ok"
       /\ token' = r.token
       /\ call' = [op |-> "get_due_cards", before |-> token, scn |-> scn,
                   hours |-> hours, out |-> r]
  /\ UNCHANGED <<clock, hostOffset, interval_minutes, is_running, sched, th, hist>>

CallSendNotification ==
  /\ call = NoCall
  /\ \E cards \in DueCardSeqs, o \in PublishOutcomes :
       call' = [op |-> "send_notification", cards |-> cards, outcome |-> o,
                out |-> send_notification(cards, o, clock, hostOffset)]
  /\ UNCHANGED <<clock, hostOffset, interval_minutes, token, is_running, sched, th, hist>>

\* SNSNotifier(): the facade constructs a Notifier per request, the
\* scheduler one at its construction.
CallNewNotifier ==
  /\ call = NoCall
  /\ \E env \in TopicEnv, client_ok \in BOOLEAN :
       call' = [op |-> "SNSNotifier", env |-> env, client_ok |-> client_ok,
                out |-> SNSNotifier_init(env, client_ok)]
  /\ UNCHANGED <<clock, hostOffset, interval_minutes, token, is_running, sched, th, hist>>

\* Times until due, in seconds, that format_card_message is given: an hour
\* overdue to two hours ahead, with the values next to each threshold.
UntilDueSeconds ==
  {-3600, -1, 0, 1, 900, 1799, 1800, 1801, 2700, 3599, 3600, 3601, 7200}

\* format_card_message's tag for one card due `seconds` from now.
CallUrgency ==
  /\ call = NoCall
  /\ \E n \in UntilDueSeconds :
       call' = [op |-> "urgency", seconds |-> n,
                tag |-> urgency_of(n, SecondsPerHour)]
  /\ UNCHANGED <<clock, hostOffset, interval_minutes, token, is_running, sched, th, hist>>

CallReturn ==
  /\ call # NoCall
  /\ call' = NoCall
  /\ UNCHANGED <<clock, hostOffset, interval_minutes, token, is_running, sched, th, hist>>

NextCalls ==
  \/ Advance
  \/ NewClient
  \/ CallLogin
  \/ CallGetBoards
  \/ CallGetCardsFromBoard
  \/ CallGetDueCards
  \/ CallSendNotification
  \/ CallUrgency
  \/ CallNewNotifier
  \/ CallReturn

SpecCalls == Init /\ [][NextCalls]_vars

\* ------------------------------------------------------------- GET /status
\* WekanClient.test_connection: True when GET /api/version is answered 200,
\* False for another status and for a transport error, which it catches.
wekan_test_connection(outcome) == outcome = "ok"

\* What sns_client.get_topic_attributes does: it returns the topic's
\* attributes or an answer without any, or raises.
TopicOutcomes == {"attrs", "noattrs", "ClientError", "Error"}

\* SNSNotifier.test_connection
sns_test_connection(outcome) == outcome = "attrs"

\* The Notifier a request finds: the environment's topic, whether the
\* messaging client can be made, and what the topic lookup answers.
NotifierCases ==
  {[env |-> "arn:configured", client_ok |-> TRUE, topic |-> o] : o \in TopicOutcomes}
    \cup {[env |-> Unset, client_ok |-> TRUE, topic |-> "attrs"],
          [env |-> "", client_ok |-> TRUE, topic |-> "attrs"],
          [env |-> "arn:configured", client_ok |-> FALSE, topic |-> "attrs"]}

\* `"healthy" if scheduler_status.get("running") and wekan_connection and
\* sns_config else "degraded"`
overall_status_without_sns(running, wekan_connection, sns_config) ==
  IF running /\ wekan_connection THEN "healthy" ELSE "degraded"

overall_status(running, wekan_connection, sns_config) ==
  IF running /\ wekan_connection /\ sns_config THEN "healthy" ELSE "degraded"

\* GET /status: the scheduler's status (or the stand-in of a facade whose
\* scheduler was never set), the Board Client's connection test on a new
\* client, the Notifier's on a new Notifier (False when it cannot be
\* constructed), and the overall status, answered with 200.
status_endpoint(initialised, running, s, interval, jobs_outcome, wekan_outcome, nc) ==
  LET scheduler_status ==
        IF initialised THEN get_status(running, s, interval, jobs_outcome)
        ELSE [exc |-> NoExc, running |-> FALSE, interval_minutes |-> 0, next_run |-> -1,
              jobs_count |-> 0, error |-> "Scheduler not initialized"]
      wekan_connection == wekan_test_connection(wekan_outcome)
      made       == SNSNotifier_init(nc.env, nc.client_ok)
      sns_config == IF made.exc # NoExc THEN FALSE ELSE sns_test_connection(nc.topic)
  IN  IF scheduler_status.exc # NoExc
      THEN [code |-> 500, status |-> "error", scheduler |-> scheduler_status,
            wekan_connection |-> FALSE, email_config |-> FALSE]
      ELSE [code |-> 200,
            status |-> overall_status(scheduler_status.running, wekan_connection, sns_config),
            scheduler |-> scheduler_status,
            wekan_connection |-> wekan_connection,
            email_config |-> sns_config]

\* GET /status served by the facade.  The facade's scheduler is set by the
\* startup hook; an application object used without its hooks has none.
StatusEndpoint ==
  /\ call = NoCall
  /\ th["http"].pc = "idle"
  /\ \E initialised \in BOOLEAN, jobs_outcome \in {"ok", "Error"},
        wekan_outcome \in HttpOutcomes, nc \in NotifierCases :
       /\ ~initialised => hist.life = "none"
       /\ ~is_running => jobs_outcome = "ok"
       /\ call' = [op |-> "status", initialised |-> initialised,
                   jobs_outcome |-> jobs_outcome, wekan_outcome |-> wekan_outcome,
                   notifier |-> nc,
                   out |-> status_endpoint(initialised, is_running, sched, interval_minutes,
                                           jobs_outcome, wekan_outcome, nc)]
  /\ UNCHANGED <<clock, hostOffset, interval_minutes, token, is_running, sched, th, hist>>

\* The life cycle as the facade's hooks drive it; a response is taken by
\* its client before the next operation is looked at.
FacadeStart == call = NoCall /\ Start
FacadeStop == call = NoCall /\ Stop
FacadeStopReturn == call = NoCall /\ StopReturn
FacadeTickFetch == call = NoCall /\ TickFetch("main")
FacadeTickPublish == call = NoCall /\ TickPublish("main")

NextFacade ==
  \/ FacadeStart
  \/ FacadeStop
  \/ FacadeStopReturn
  \/ FacadeTickFetch
  \/ FacadeTickPublish
  \/ StatusEndpoint
  \/ CallReturn

SpecFacade == Init /\ [][NextFacade]_vars

\* ================================================================== claims

\* C1: runManualCheck() on an upstream failure (a request to the board API
\* failed during the fetch) returns a RunResult with success = false and an
\* error, and does not raise.
C1_ManualCheckReportsUpstreamFailure ==
  (th["http"].pc = "return" /\ hist.fetchFailed) =>
     /\ hist.result.present
     /\ ~hist.result.raised
     /\ ~hist.result.success
     /\ hist.result.error # None

\* C2: a start() that finds the scheduler stopped runs exactly one reminder
\* check of its own before it returns, and that check has begun whenever a
\* timer-driven check begins after the start.
C2_StartRunsOneImmediateTick ==
  (hist.life = "start" /\ hist.effective /\ ~hist.startRaised) =>
     /\ is_running
     /\ hist.immTicks = 1
     /\ hist.immDone = (IF th["main"].pc = "idle" THEN 1 ELSE 0)
     /\ (hist.timerFired \/ th["timer"].pc # "idle") => hist.immTicks = 1

\* A timer-driven check began while the immediate check of start() was still
\* running, and start() returned after its one check.
C2_Witness ==
  /\ hist.life = "start" /\ hist.effective
  /\ th["main"].pc # "idle"
  /\ hist.timerFired
  /\ hist.immTicks = 1

\* C3: at most one timer job is registered at any time, and a start() called
\* while the scheduler runs changes nothing: one job stays registered, no
\* check is run, nothing is raised.
C3_SecondStartStep ==
  (hist'.calls # hist.calls /\ hist'.last = "start" /\ is_running) =>
     /\ is_running' = is_running
     /\ sched' = sched
     /\ th' = th
     /\ token' = token
     /\ Len(sched'.jobs) = 1
     /\ hist'.immTicks = hist.immTicks
     /\ hist'.immDone = hist.immDone
     /\ ~hist'.startRaised

C4_TimerStep ==
  (th'["timer"] # th["timer"]) =>
     /\ is_running' = is_running
     /\ sched'.state = sched.state
     /\ sched'.jobs = sched.jobs

C4_TickFailureSwallowed ==
  /\ [](~hist.timerSawExc)
  /\ [][C4_TimerStep]_vars

\* A timer-driven check began after one in which an exception was raised,
\* with the scheduler still running.
C4_Witness ==
  /\ hist.firedAfterFail
  /\ is_running /\ Len(sched.jobs) = 1
  /\ th["timer"].pc # "idle"

\* C5: stop() on a stopped scheduler changes nothing; on a running one it
\* cancels the timer, and once it has returned is_running is false and no
\* timer-driven check runs or begins; a step of stop() leaves a check in
\* flight as it is.
C5_StopStep ==
  /\ (hist'.calls # hist.calls /\ hist'.last = "stop" /\ ~is_running) =>
        (is_running' = is_running /\ sched' = sched /\ th' = th /\ token' = token)
  /\ (th'["main"] # th["main"] \/ is_running' # is_running) =>
        th'["timer"] = th["timer"]
  /\ (~is_running /\ hist.life = "stop" /\ hist'.life = "stop") =>
        th'["timer"].pc = "idle"

C6_PublishOnceTrueIffMessageId ==
  (call.op = "send_notification" /\ call.cards # <<>>) =>
     /\ call.out.calls = 1
     /\ call.out.exc = NoExc
     /\ call.out.value = (call.outcome = "ack")

\* A publish call that raised ClientError, answered by false.
C6_Witness ==
  /\ call.op = "send_notification"
  /\ call.cards # <<>>
  /\ call.outcome = "ClientError"
  /\ call.out.value = FALSE

\* C7: send_notification with no due cards returns true and makes no publish
\* call.
C7_EmptyPublishIsNoop ==
  (call.op = "send_notification" /\ call.cards = <<>>) =>
     /\ call.out.value = TRUE
     /\ call.out.calls = 0
     /\ call.out.exc = NoExc

C7_Witness ==
  /\ call.op = "send_notification"
  /\ call.cards = <<>>
  /\ call.out.value = TRUE

\* The cards the walk of get_due_cards fetched, in traversal order.
RECURSIVE C8_CardsOfBoards(_, _, _)
C8_CardsOfBoards(bs, tok, scn) ==
  IF bs = <<>> THEN <<>>
  ELSE get_cards_from_board(tok, Head(bs), scn).value \o C8_CardsOfBoards(Tail(bs), tok, scn)

C8_Fetched(tok, scn) ==
  LET bo == get_boards(tok, scn) IN
  IF bo.exc # NoExc THEN <<>> ELSE C8_CardsOfBoards(bo.value, bo.token, scn)

C8_Ids(cards) == [i \in 1..Len(cards) |-> cards[i].id]

\* C8: get_due_cards returns, in traversal order, exactly the fetched cards
\* whose due timestamp parses to a local time d with
\* now <= d <= now + lookahead, both bounds included, and it does not raise.
C8_DueCardsAreThoseInWindow ==
  (call.op = "get_due_cards") =>
     LET now    == now_local(clock)
         Due(c) == /\ c.dueAt.fmt \notin {"none", "bad"}
                   /\ LET d == astimezone_local(fromisoformat(c.dueAt), hostOffset)
                      IN  now <= d /\ d <= now + call.hours * Hour
     IN  /\ call.out.exc = NoExc
         /\ C8_Ids(call.out.value) = C8_Ids(SelectSeq(C8_Fetched(call.before, call.scn), Due))
         /\ \A i \in 1..Len(call.out.value) :
              /\ call.out.value[i].dueAtParsed >= now
              /\ call.out.value[i].dueAtParsed <= now + call.hours * Hour

\* A walk that met a card without a due timestamp and an unparsable one, and
\* returned a card due now and a card due at the end of the window.
C8_Witness ==
  /\ call.op = "get_due_cards"
  /\ call.scn = AllOk
  /\ call.hours = HoursAhead
  /\ \E i, j \in 1..Len(call.out.value) :
        /\ call.out.value[i].dueAtParsed = now_local(clock)
        /\ call.out.value[j].dueAtParsed = now_local(clock) + HoursAhead * Hour

\* C9: get_boards authenticates first when it holds no token, and on a failed
\* login, a login answer without a token, a non-200 listing or a transport
\* error it returns an empty sequence and does not raise.
C9_BoardsEmptyOnAnyFailure ==
  (call.op = "get_boards") =>
     /\ call.out.exc = NoExc
     /\ (call.before = None) => call.out.logins = 1
     /\ (\/ call.before = None /\ call.scn.login # "ok"
         \/ call.scn.boards # "ok") => call.out.value = <<>>

\* The cards of the lists of board b whose request was answered.
RECURSIVE C10_CardsOfAnswered(_, _, _)
C10_CardsOfAnswered(b, ls, scn) ==
  IF ls = <<>> THEN <<>>
  ELSE (IF scn.cards[Head(ls)] = "ok" THEN AnnotatedCards(b, Head(ls)) ELSE <<>>)
         \o C10_CardsOfAnswered(b, Tail(ls), scn)

\* C10: when the request for one list's cards fails, get_cards_from_board
\* still returns the cards of every other list of the board; only a failure
\* of the request for the board's lists yields an empty result.
C10_OnlyFailedListMissing ==
  (call.op = "get_cards_from_board" /\ call.before # None) =>
     /\ call.out.exc = NoExc
     /\ call.out.value =
          IF call.scn.lists[call.board] = "ok"
          THEN C10_CardsOfAnswered(call.board, ListsOf(call.board), call.scn)
          ELSE <<>>
\* C11 as stated: below 0 is OVERDUE, below 0.5 URGENT, below 1 SOON,
\* otherwise UPCOMING, and exactly 0.5 and exactly 1.0 belong to the lower,
\* stricter bucket (URGENT and SOON).
C11_BoundaryInLowerBucket ==
  (call.op = "urgency") =>
     LET n == call.seconds IN
     /\ n < 0 => call.tag = "OVERDUE"
     /\ (0 <= n /\ 2 * n <= SecondsPerHour) => call.tag = "URGENT"
     /\ (2 * n > SecondsPerHour /\ n <= SecondsPerHour) => call.tag = "SOON"
     /\ n > SecondsPerHour => call.tag = "UPCOMING"

\* C11, amended: the tag is OVERDUE below 0 hours, URGENT from 0 to below
\* 0.5, SOON from 0.5 to below 1 and UPCOMING from 1 on: exactly 0.5 is SOON
\* and exactly 1.0 is UPCOMING.
C11_BoundaryInUpperBucket ==
  (call.op = "urgency") =>
     LET n == call.seconds IN
     /\ call.tag = "OVERDUE"  <=> n < 0
     /\ call.tag = "URGENT"   <=> (0 <= n /\ n < 1800)
     /\ call.tag = "SOON"     <=> (1800 <= n /\ n < 3600)
     /\ call.tag = "UPCOMING" <=> n >= 3600

\* A card due in exactly half an hour, tagged SOON.
C11_Witness ==
  /\ call.op = "urgency"
  /\ 2 * call.seconds = SecondsPerHour
  /\ call.tag = "SOON"

\* C12: constructing the Notifier raises whenever the topic identifier is not
\* configured in the environment, unset as well as empty, so a Notifier that
\* was constructed publishes to the topic the environment names.
C12_NoTopicNoNotifier ==
  (call.op = "SNSNotifier") =>
     /\ call.env \in {Unset, ""} => call.out.exc # NoExc
     /\ call.out.exc = NoExc => call.out.sns_topic_arn = call.env

\* Every card the board API holds, in traversal order, and the instant a
\* card is due at: the wall-clock time written minus the offset written, a
\* timestamp without an offset being UTC.
C13_AllCards == C8_CardsOfBoards(Boards, "tok", AllOk)

C13_Instant(c) == c.dueAt.wall - c.dueAt.off

C13_Due(c) ==
  /\ c.dueAt.fmt \notin {"none", "bad"}
  /\ clock <= C13_Instant(c)
  /\ C13_Instant(c) <= clock + HoursAhead * Hour

\* The fetch of a manual check in which every request was answered: the due
\* cards are the cards due within the hour, each with its board's and its
\* list's title and its due time in local time; with none, the RunResult
\* counts 0 and reports nothing sent.
C13_FetchStep ==
  (hist'.calls # hist.calls /\ hist'.last = "manual" /\ ~hist'.fetchFailed) =>
     LET expected == SelectSeq(C13_AllCards, C13_Due)
         got      == IF th'["http"].pc = "publish" THEN th'["http"].due ELSE <<>>
     IN  /\ C8_Ids(got) = C8_Ids(expected)
         /\ \A i \in 1..Len(got) :
              /\ got[i].boardTitle = BoardTitle(got[i].boardId)
              /\ got[i].listTitle = ListTitle(got[i].listId)
              /\ got[i].dueAtParsed = C13_Instant(got[i]) + JerusalemOffset
         /\ th'["http"].pc = "return" =>
              /\ hist'.result.success
              /\ hist'.result.due_cards_count = 0
              /\ hist'.result.due_cards = <<>>
              /\ ~hist'.result.notification_sent

\* The publish of a manual check: the RunResult counts the due cards, holds
\* one summary per card and reports notification_sent iff the publish was
\* acknowledged.
C13_PublishStep ==
  (th["http"].pc = "publish" /\ th'["http"].pc = "return") =>
     LET due == th["http"].due
         res == hist'.result
     IN  /\ res.has_counts
         /\ res.due_cards_count = Len(due)
         /\ Len(res.due_cards) = Len(due)
         /\ \A i \in 1..Len(due) :
              /\ res.due_cards[i].title = due[i].id
              /\ res.due_cards[i].board = due[i].boardTitle
              /\ res.due_cards[i].list = due[i].listTitle
              /\ res.due_cards[i].due_at = due[i].dueAtParsed
         /\ res.notification_sent = hist'.acked

\* C13: end to end, runManualCheck() reports due_cards_count equal to the
\* number of cards due within the 1-hour window, one summary per such card
\* with its board and list titles and parsed due time, and
\* notification_sent = true iff the publish was acknowledged.
C13_ManualCheckEndToEnd ==
  [][C13_FetchStep /\ C13_PublishStep]_vars

\* C14: POST /reminders/run calls runManualCheck() once and answers 200 with
\* the RunResult iff its success is true and 500 with it otherwise; a failure
\* of the board API or of the messaging API during the check shows as 500
\* with success = false and an error.
C14_DegradedDependencyIs500 ==
  (th["http"].pc = "respond") =>
     LET res  == hist.result
         resp == hist.response
         degraded == hist.fetchFailed \/ (res.has_counts /\ res.due_cards_count > 0 /\ ~hist.acked)
     IN  /\ resp.status \in {200, 500}
         /\ resp.status = 200 <=> res.success
         /\ resp.success = res.success
         /\ resp.error = res.error
         /\ res.has_counts =>
              /\ resp.due_cards_count = res.due_cards_count
              /\ resp.due_cards = res.due_cards
              /\ resp.notification_sent = res.notification_sent
         /\ degraded => (resp.status = 500 /\ ~resp.success /\ resp.error # None)

\* C15: GET /status answers 200 with status "healthy" iff the scheduler
\* reports running, the board API answered the connection test with 200 and
\* the Notifier was constructed and found its topic; in every other case,
\* a facade without scheduler and a Notifier that cannot be constructed
\* included, the status is "degraded".
C15_HealthyIffAllThree ==
  (call.op = "status") =>
     LET made == call.notifier.env # "" /\ call.notifier.client_ok
         all3 == /\ call.initialised /\ is_running /\ call.jobs_outcome = "ok"
                 /\ call.wekan_outcome = "ok"
                 /\ made /\ call.notifier.topic = "attrs"
     IN  /\ call.out.code = 200
         /\ call.out.status = (IF all3 THEN "healthy" ELSE "degraded")
         /\ call.out.scheduler.running = (call.initialised /\ is_running /\ call.jobs_outcome = "ok")
         /\ call.out.status = "healthy" <=>
               (call.out.scheduler.running /\ call.out.wekan_connection /\ call.out.email_config)

\* A running scheduler and a reachable board API, reported degraded because
\* the Notifier cannot be constructed.
C15_Witness ==
  /\ call.op = "status"
  /\ is_running
  /\ call.out.scheduler.running
  /\ call.out.wekan_connection
  /\ call.notifier.env = ""
  /\ call.out.status = "degraded"

\* A step of the manual check leaves a timer-driven check in flight as it
\* is, a step of the timer's check leaves the manual check as it is, and
\* an acknowledged publish of the manual check carries every card the check
\* holds, also the cards a timer-driven check in flight holds.
C16_Step ==
  /\ th'["http"] # th["http"] => th'["timer"] = th["timer"]
  /\ th'["timer"] # th["timer"] => th'["http"] = th["http"]
  /\ (th["http"].pc = "publish" /\ th'["http"].pc = "return" /\ hist'.acked) =>
        hist'.sent = held(th, {"http"})

\* C16: runManualCheck() and a timer tick are not serialized and nothing
\* keeps one from publishing what the other publishes: both are in flight
\* at once on the same Board Client and Notifier holding the same due card,
\* and each publishes every card it holds.
C16_NoSerializationNoDedup ==
  /\ [](hist.sent \subseteq {"c1", "c4", "c5"})
  /\ [][C16_Step]_vars

\* The manual check has published a card, acknowledged, and has not
\* returned yet; a timer tick in flight holds the same card and is about to
\* publish it.
C16_Witness ==
  /\ th["http"].pc = "return"
  /\ hist.acked
  /\ th["timer"].pc = "publish"
  /\ hist.sent \cap held(th, {"timer"}) # {}

\* A step of a tick on thread t: the tick begins with the fetch; the fetch
\* is followed by the publish, of cards due within one hour of the fetch, or
\* by the end of the tick; the publish is followed by the end of the tick.
C17_TickStep(t) ==
  /\ (th[t].pc = "idle" /\ th'[t] # th[t]) =>
        (th'[t].pc = "fetch" /\ th'[t].due = <<>>)
  /\ (th[t].pc = "fetch" /\ th'[t] # th[t]) =>
        \/ th'[t] = Idle
        \/ /\ th'[t].pc = "publish"
           /\ th'[t].due # <<>>
           /\ \A i \in 1..Len(th'[t].due) :
                /\ th'[t].due[i].dueAtParsed >= now_local(clock)
                /\ th'[t].due[i].dueAtParsed <= now_local(clock) + Hour
  /\ (th[t].pc = "publish" /\ th'[t] # th[t]) => th'[t] = Idle

\* C17: a tick makes one fetch of the cards due within one hour and then at
\* most one publish attempt, made iff the fetch returned cards; neither a
\* failed fetch nor a failed publish is tried again within the tick.
C17_OneFetchOnePublish ==
  /\ [](\A t \in {"main", "timer"} :
          /\ th[t].pc \in {"idle", "fetch", "publish", "stopping"}
          /\ th[t].pc = "publish" <=> th[t].due # <<>>)
  /\ [][C17_TickStep("timer")]_vars
  /\ [][th["main"].pc \in {"fetch", "publish"} => C17_TickStep("main")]_vars

\* A timer tick in which the fetch or the publish failed has ended, and the
\* next tick, begun when the timer fired again, is at its fetch.
C17_Witness ==
  /\ hist.failedTick
  /\ hist.firedAfterFail
  /\ th["timer"].pc = "fetch"

\* The cards the filter of get_due_cards keeps at the current time.
C18_InWindowNow(c) ==
  /\ c.dueAt.fmt \notin {"none", "bad"}
  /\ InWindow(astimezone_local(fromisoformat(c.dueAt), hostOffset),
              now_local(clock), now_local(clock) + HoursAhead * Hour)

\* A step that is no step of start() or stop() leaves is_running, the
\* interval, the timer's state and its jobs as they are; the fetch of a
\* manual check returns the cards in the window whether the scheduler runs
\* or not.
C18_Step ==
  LET lifecycle == \/ hist'.calls # hist.calls /\ hist'.last \in {"start", "stop"}
                   \/ th["main"].pc = "stopping" /\ th'["main"].pc = "idle"
      got == IF th'["http"].pc = "publish" THEN th'["http"].due ELSE <<>>
  IN  /\ ~lifecycle =>
           /\ is_running' = is_running
           /\ interval_minutes' = interval_minutes
           /\ sched'.state = sched.state
           /\ sched'.jobs = sched.jobs
      /\ (hist'.calls # hist.calls /\ hist'.last = "manual" /\ ~hist'.fetchFailed) =>
           C8_Ids(got) = C8_Ids(SelectSeq(C13_AllCards, C18_InWindowNow))

\* C18: is_running, the interval and the registered job are changed only
\* by start() and stop(); a tick, runManualCheck() and getStatus() leave them
\* unchanged, whether they succeed or fail, and runManualCheck() works the
\* same in the Stopped and in the Running state.
C18_OnlyStartStopChangeState ==
  [][C18_Step]_vars

\* A manual check that found due cards on a scheduler that stop() has
\* stopped: the scheduler is still stopped, without a job.
C18_Witness ==
  /\ hist.life = "stop" /\ hist.effective
  /\ ~is_running /\ sched.state = "stopped" /\ sched.jobs = <<>>
  /\ th["http"].pc = "return"
  /\ hist.result.success /\ hist.result.due_cards_count > 0

\* C19: whether get_due_cards returns a card depends only on the instant the
\* card is due at and on the current instant, whatever offset the timestamp
\* is written with, a timestamp without an offset being UTC, and whatever
\* the host's zone: with every request answered, a card with a timestamp
\* is returned iff its instant lies between now and now plus the lookahead.
C19_DueDependsOnInstantsOnly ==
  (call.op = "get_due_cards" /\ ~call.out.logged) =>
     \A i \in 1..Len(C13_AllCards) :
        LET c == C13_AllCards[i] IN
        c.dueAt.fmt \in {"z", "offset", "naive"} =>
          ((\E j \in 1..Len(call.out.value) : call.out.value[j].id = c.id)
             <=> (clock <= C13_Instant(c) /\ C13_Instant(c) <= clock + call.hours * Hour))

\* C20: once stop() has moved the scheduler from Running to Stopped and has
\* returned, no later operation brings it back to Running or registers a
\* timer job again.
C20_StoppedStep ==
  (hist.life = "stop" /\ hist.effective /\ th["main"].pc = "idle" /\ ~is_running) =>
     /\ ~is_running'
     /\ sched'.state = "stopped"
     /\ sched'.jobs = <<>>

C20_StoppedIsTerminal ==
  [][C20_StoppedStep]_vars

C22_TokenRejected(scn) ==
  /\ scn.boards = "non200"
  /\ \A b \in {"b1", "b2"} : scn.lists[b] = "non200"
  /\ \A l \in AllLists : scn.cards[l] = "non200"

C22_ClientCalls == {"get_boards", "get_cards_from_board", "get_due_cards"}

\* A call of the client made while a token is held makes no login request
\* and leaves the token as it was; when the token is rejected, get_due_cards
\* returns no card and raises nothing.
C22_HeldTokenCall ==
  (call.op \in C22_ClientCalls /\ call.before # None) =>
     /\ call.out.logins = 0
     /\ call.out.token = call.before
     /\ token = call.before
     /\ (call.op = "get_due_cards" /\ C22_TokenRejected(call.scn)) =>
           (call.out.exc = NoExc /\ call.out.value = <<>>)

\* A step that is a call of the client keeps a token that is held, so the
\* next call is made with the same token.
C22_Step ==
  (token # None /\ call'.op \in C22_ClientCalls) => token' = token

\* C22: the client logs in only while it holds no token; no get_boards,
\* get_cards_from_board or get_due_cards call clears a stored token or logs
\* in again, also when every request with it is rejected, and with a rejected
\* token every get_due_cards call (so every later check) returns no card.
C22_TokenNeverRefreshed ==
  /\ [](C22_HeldTokenCall)
  /\ []((call.op \in C22_ClientCalls /\ call.out.logins > 0) => call.before = None)
  /\ [][C22_Step]_vars

\* get_due_cards with a stored token that the upstream rejects: no card, no
\* login, the same token afterwards.
C22_Witness ==
  /\ call.op = "get_due_cards"
  /\ call.before # None
  /\ C22_TokenRejected(call.scn)
  /\ call.out.value = <<>>
  /\ call.out.logins = 0
  /\ token = call.before

\* C23: every RunResult that run_manual_check returns carries a timestamp
\* and success; it carries an error iff success is false; and when it carries
\* due_cards_count, that is the number of entries of due_cards,
\* notification_sent implies due_cards_count > 0 and success, and
\* due_cards_count = 0 implies no notification_sent and success.
C23_RunResultConsistent ==
  LET r == hist.result IN
  (r.present /\ ~r.raised) =>
     /\ r.has_timestamp
     /\ r.success \in BOOLEAN
     /\ (r.error # None) <=> ~r.success
     /\ r.has_counts =>
          /\ r.due_cards_count = Len(r.due_cards)
          /\ r.notification_sent => (r.due_cards_count > 0 /\ r.success)
          /\ (r.due_cards_count = 0) => (~r.notification_sent /\ r.success)

\* A RunResult returned after a publish that failed: cards counted, no
\* notification sent, success false with an error.
C23_Witness ==
  /\ th["http"].pc = "return"
  /\ hist.result.present /\ ~hist.result.raised
  /\ hist.result.has_counts
  /\ hist.result.due_cards_count > 0
  /\ ~hist.result.notification_sent
  /\ ~hist.result.success
  /\ hist.result.error # None

\* C24: for cards that get_due_cards(1) returned and format_card_message
\* formats at the same instant, the time until due in the message is the
\* real time from now to the card's due instant, whatever the host's zone:
\* it lies between 0 and 1 hour, and no card is tagged OVERDUE.
C24_UntilDueIsRealTime ==
  (/\ call.op = "send_notification"
   /\ call.cards # <<>>
   /\ call.cards = get_due_cards("tok", AllOk, clock, hostOffset, HoursAhead).value) =>
     \A i \in 1..Len(call.cards) :
        LET e == call.out.message.entries[i] IN
        /\ e.until = C13_Instant(call.cards[i]) - clock
        /\ 0 <= e.until /\ e.until <= HoursAhead * Hour
        /\ e.urgency # "OVERDUE"

====
